---- MODULE Spec2Model ----
(***************************************************************************)
(* Model of api/storage.py: the S3-backed object store used by deepwiki.   *)
(* Strings that the code inspects character by character (key segments,    *)
(* the prefix) are sequences of one-character strings; opaque strings      *)
(* (object keys, local paths) are TLA+ strings.  JSON text is a sequence   *)
(* of tokens.                                                              *)
(***************************************************************************)
EXTENDS Integers, Sequences, FiniteSets, TLC

VARIABLES
    STORAGE_BACKEND,   \* os.environ DEEPWIKI_STORAGE_BACKEND, lower-cased
    S3_ENABLED_ENV,    \* DEEPWIKI_S3_ENABLED in ["1", "true", "yes"]
    S3_BUCKET,         \* DEEPWIKI_S3_BUCKET, None when unset
    S3_PREFIX,         \* DEEPWIKI_S3_PREFIX, a character sequence
    os_sep,            \* os.sep of the platform
    bucket,            \* the remote bucket: a function from the stored keys to payloads
    files,             \* local filesystem: a function from the existing paths to contents
    dirs,              \* local directories that exist
    cache,             \* the lru_cache slot of _s3_client: <<>> or <<handle>>
    constructed,       \* number of boto3.client constructions so far
    last,              \* the record of the operation that just returned
    prev,              \* the record of the operation before it
    pc,                \* per thread: position inside a remote call
    handle,            \* per thread: the handle _s3_client() returned
    used               \* handles on which some remote call was issued

cfgvars == <<STORAGE_BACKEND, S3_ENABLED_ENV, S3_BUCKET, S3_PREFIX, os_sep>>
storevars == <<bucket, files, dirs>>
thrvars == <<pc, handle, used>>
vars == <<cfgvars, storevars, cache, constructed, last, prev, thrvars>>

None == "None"

\* ---------------------------------------------------------------- bounds
MaxParts == 2       \* segments passed to build_s3_key
MaxPartLen == 2     \* characters per segment
MaxPageSize == 2    \* entries per listing page
NumThreads == 3     \* threads that touch the module concurrently

\* --------------------------------------------------------------- strings
Alphabet == {"a", "/", "\\"}

RECURSIVE StringsUpTo(_)
StringsUpTo(n) ==
    IF n = 0 THEN {<<>>}
    ELSE LET shorter == StringsUpTo(n - 1)
         IN  shorter \cup {Append(s, c) : s \in shorter, c \in Alphabet}

RECURSIVE ListsUpTo(_, _)
ListsUpTo(S, n) ==
    IF n = 0 THEN {<<>>}
    ELSE LET shorter == ListsUpTo(S, n - 1)
         IN  shorter \cup {Append(l, x) : l \in shorter, x \in S}

\* str.replace(old, "/") for a one-character old
Replace(s, old) == [i \in 1..Len(s) |-> IF s[i] = old THEN "/" ELSE s[i]]

\* str.strip("/")
RECURSIVE LStrip(_)
LStrip(s) == IF s # <<>> /\ Head(s) = "/" THEN LStrip(Tail(s)) ELSE s

RECURSIVE RStrip(_)
RStrip(s) ==
    IF s # <<>> /\ s[Len(s)] = "/" THEN RStrip(SubSeq(s, 1, Len(s) - 1)) ELSE s

Strip(s) == RStrip(LStrip(s))

\* "/".join(list)
RECURSIVE Join(_)
Join(list) ==
    IF list = <<>> THEN <<>>
    ELSE IF Len(list) = 1 THEN list[1]
    ELSE list[1] \o <<"/">> \o Join(Tail(list))

\* the loop of build_s3_key: drop falsy parts, normalize, drop empty results
RECURSIVE CleanedParts(_, _)
CleanedParts(parts, sep) ==
    IF parts = <<>> THEN <<>>
    ELSE LET part == Head(parts)
             normalized == Strip(Replace(part, sep))
             rest == CleanedParts(Tail(parts), sep)
         IN  IF part = <<>> THEN rest
             ELSE IF normalized # <<>> THEN <<normalized>> \o rest
             ELSE rest

build_s3_key(parts, prefixEnv, sep) ==
    LET key == Join(CleanedParts(parts, sep))
        prefix == Strip(prefixEnv)
    IN  IF prefix # <<>>
        THEN (IF key # <<>> THEN prefix \o <<"/">> \o key ELSE prefix)
        ELSE key

\* ------------------------------------------------------------------ JSON
\* Python values: the tag is the Python type; ints carry their decimal text.
PyInt(n) == [t |-> "int", s |-> n, items |-> <<>>]
PyStr(x) == [t |-> "str", s |-> x, items |-> <<>>]
PyList(xs) == [t |-> "list", s |-> "", items |-> xs]
PyTuple(xs) == [t |-> "tuple", s |-> "", items |-> xs]
PySet == [t |-> "set", s |-> "", items |-> <<>>]

\* A Python dict is its items in insertion order, keys distinct.
Item(k, v) == [k |-> k, v |-> v]

\* JSON text, tokenized
Tok(kind, text) == [tok |-> kind, s |-> text]
P(c) == Tok("p", c)
RECURSIVE CommaSep(_)
CommaSep(chunks) ==
    IF chunks = <<>> THEN <<>>
    ELSE IF Len(chunks) = 1 THEN chunks[1]
    ELSE chunks[1] \o <<P(",")>> \o CommaSep(Tail(chunks))

\* what the encoder of json.dumps accepts: int, str, list and tuple values,
\* str and int keys; anything else raises TypeError
ScalarOk(v) == v.t \in {"int", "str"}
ValueOk(v) ==
    \/ ScalarOk(v)
    \/ v.t \in {"list", "tuple"} /\ \A i \in 1..Len(v.items) : ScalarOk(v.items[i])
KeyOk(k) == k.t \in {"str", "int"}
Serializable(d) == \A i \in 1..Len(d) : KeyOk(d[i].k) /\ ValueOk(d[i].v)

\* a variant that writes every scalar as a JSON string
EncodeScalar_AsString(v) == <<Tok("str", v.s)>>

\* int -> number, str -> string
EncodeScalar(v) == IF v.t = "int" THEN <<Tok("num", v.s)>> ELSE <<Tok("str", v.s)>>

\* lists and tuples both encode as a JSON array
EncodeValue(v) ==
    IF ScalarOk(v) THEN EncodeScalar(v)
    ELSE <<P("[")>> \o CommaSep([i \in 1..Len(v.items) |-> EncodeScalar(v.items[i])])
                    \o <<P("]")>>

\* dict keys: str as is, int coerced to its decimal text
EncodeKey(k) == <<Tok("str", k.s)>>

\* json.dumps(data, ensure_ascii=True).encode("utf-8") of a serializable dict
json_dumps(d) ==
    <<P("{")>>
    \o CommaSep([i \in 1..Len(d) |-> EncodeKey(d[i].k) \o <<P(":")>> \o EncodeValue(d[i].v)])
    \o <<P("}")>>

\* dict[k] = v: a repeated key keeps its place and takes the later value
DictSet(d, k, v) ==
    IF \E i \in 1..Len(d) : d[i].k = k
    THEN [i \in 1..Len(d) |-> IF d[i].k = k THEN Item(k, v) ELSE d[i]]
    ELSE Append(d, Item(k, v))

Fail == [ok |-> FALSE, val |-> <<>>, rest |-> <<>>]
Parsed(v, rest) == [ok |-> TRUE, val |-> v, rest |-> rest]

DecodeScalar(tk) == IF tk.tok = "num" THEN PyInt(tk.s) ELSE PyStr(tk.s)

\* the elements of an array, after "[" (first = no element read yet)
RECURSIVE ParseElems(_, _, _)
ParseElems(toks, acc, first) ==
    IF toks = <<>> THEN Fail
    ELSE IF first /\ Head(toks) = P("]") THEN Parsed(PyList(acc), Tail(toks))
    ELSE IF Head(toks).tok \notin {"num", "str"} THEN Fail
    ELSE LET acc2 == Append(acc, DecodeScalar(Head(toks)))
             after == Tail(toks)
         IN  IF after = <<>> THEN Fail
             ELSE IF Head(after) = P("]") THEN Parsed(PyList(acc2), Tail(after))
             ELSE IF Head(after) = P(",") THEN ParseElems(Tail(after), acc2, FALSE)
             ELSE Fail

ParseValue(toks) ==
    IF toks = <<>> THEN Fail
    ELSE IF Head(toks).tok \in {"num", "str"} THEN Parsed(DecodeScalar(Head(toks)), Tail(toks))
    ELSE IF Head(toks) = P("[") THEN ParseElems(Tail(toks), <<>>, TRUE)
    ELSE Fail

\* the members of an object, after "{"
RECURSIVE ParseMembers(_, _, _)
ParseMembers(toks, acc, first) ==
    IF toks = <<>> THEN Fail
    ELSE IF first /\ Head(toks) = P("}") THEN Parsed(acc, Tail(toks))
    ELSE IF Len(toks) < 3 \/ toks[1].tok # "str" \/ toks[2] # P(":") THEN Fail
    ELSE LET val == ParseValue(SubSeq(toks, 3, Len(toks)))
         IN  IF ~val.ok \/ val.rest = <<>> THEN Fail
             ELSE LET acc2 == DictSet(acc, PyStr(toks[1].s), val.val)
                  IN  IF Head(val.rest) = P("}") THEN Parsed(acc2, Tail(val.rest))
                      ELSE IF Head(val.rest) = P(",")
                      THEN ParseMembers(Tail(val.rest), acc2, FALSE)
                      ELSE Fail

\* json.loads of a payload: ok with the dict, or not ok (ValueError)
json_loads(payload) ==
    IF payload = <<>> \/ Head(payload) # P("{") THEN Fail
    ELSE LET r == ParseMembers(Tail(payload), <<>>, TRUE)
         IN  IF r.ok /\ r.rest = <<>> THEN r ELSE Fail

\* Python's == on two dicts: same keys, equal values, order irrelevant
DictEq(a, b) == {a[i] : i \in 1..Len(a)} = {b[i] : i \in 1..Len(b)}

\* a structure json.loads can return: str keys; int, str and list values
IsJSONDoc(d) ==
    \A i \in 1..Len(d) :
        /\ d[i].k.t = "str"
        /\ d[i].v.t \in {"int", "str", "list"}
        /\ \A j \in 1..Len(d[i].v.items) : d[i].v.items[j].t \in {"int", "str"}

\* documents handed to write_json
DocX1 == <<Item(PyStr("x"), PyInt("1"))>>
DocList == <<Item(PyStr("x"), PyStr("a")), Item(PyStr("y"), PyList(<<PyInt("1"), PyStr("a")>>))>>
DocIntKey == <<Item(PyInt("1"), PyStr("a"))>>
DocTuple == <<Item(PyStr("x"), PyTuple(<<PyInt("1")>>))>>
DocSet == <<Item(PyStr("s"), PySet)>>
Docs == {DocX1, DocList, DocIntKey, DocTuple, DocSet}

\* content of a local file that is not JSON
RawContent == <<Tok("raw", "bytes")>>

\* ------------------------------------------------------- the environment
Keys == {"wiki/a", "repo/b"}
KeyOrder == <<"repo/b", "repo/c", "wiki/a", "wiki/d">>   \* S3 lists keys in this order
Prefixes == {"", "wiki/", "repo/"}
HasPrefix(k, p) ==
    \/ p = ""
    \/ p = "wiki/" /\ k \in {"wiki/a", "wiki/d"}
    \/ p = "repo/" /\ k \in {"repo/b", "repo/c"}

Paths == {"f.json", "d/f.json"}
dirname(path) == IF path = "d/f.json" THEN "d" ELSE ""

\* how the service answers: it answers, it answers with an error response
\* (ClientError with a code other than not-found), or the call fails otherwise
\* (botocore's connection errors, which are not ClientError)
Nets == {"ok", "clienterr", "other"}

EmptyFn == [x \in {} |-> <<>>]
Put(f, k, v) == [x \in DOMAIN f \cup {k} |-> IF x = k THEN v ELSE f[x]]
Remove(f, k) == [x \in DOMAIN f \ {k} |-> f[x]]

\* return values
RBool(b) == [t |-> "bool", v |-> b]
RNone == [t |-> "none", v |-> FALSE]
RDict(d) == [t |-> "dict", v |-> d]
RList(l) == [t |-> "list", v |-> l]
Raised == [t |-> "raised", v |-> FALSE]

\* the state an operation runs on: the stores, the client cache, and what the
\* operation has done so far (remote calls issued, error-log entries, the kind of
\* failure it met: "none", "notfound", "error")
Cur ==
    [bucket |-> bucket, files |-> files, dirs |-> dirs,
     cache |-> cache, constructed |-> constructed,
     calls |-> <<>>, logged |-> 0, fail |-> "none"]

Result(st, ret) == [st |-> st, ret |-> ret]

\* logger.error(...)
LogError(st) == [st EXCEPT !.logged = @ + 1]
Met(st, kind) == [st EXCEPT !.fail = kind]

\* ------------------------------------------------------------ the module
\* a variant that forgets the bucket
s3_enabled_IgnoresBucket == STORAGE_BACKEND = "s3" \/ S3_ENABLED_ENV

s3_enabled ==
    S3_BUCKET \notin {None, ""} /\ (STORAGE_BACKEND = "s3" \/ S3_ENABLED_ENV)

\* @lru_cache(maxsize=1) _s3_client(), called from one thread: a miss runs
\* boto3.client and caches the handle, a hit returns the cached handle
_s3_client(st) ==
    IF st.cache = <<>>
    THEN [st EXCEPT !.cache = <<st.constructed + 1>>, !.constructed = @ + 1]
    ELSE st

\* _s3_client().<name>(...): the call is issued on the handle
Call(st, name) == [_s3_client(st) EXCEPT !.calls = Append(@, name)]

\* head_object / get_object / download_file on a key: the answer of a
\* reachable service depends on whether the key is stored
KeyOutcome(st, key, net) ==
    IF net # "ok" THEN net ELSE IF key \in DOMAIN st.bucket THEN "ok" ELSE "notfound"

s3_object_exists(st, key, net) ==
    IF ~s3_enabled THEN Result(st, RBool(FALSE))
    ELSE LET c == Call(st, "head_object")
             out == KeyOutcome(st, key, net)
         IN  IF out = "ok" THEN Result(c, RBool(TRUE))
             ELSE IF out = "notfound" THEN Result(Met(c, "notfound"), RBool(FALSE))
             ELSE IF out = "clienterr" THEN Result(LogError(Met(c, "error")), RBool(FALSE))
             ELSE Result(Met(c, "error"), Raised)   \* no handler for non-ClientError

s3_read_json(st, key, net) ==
    IF ~s3_enabled THEN Result(st, RNone)
    ELSE LET c == Call(st, "get_object")
             out == KeyOutcome(st, key, net)
         IN  IF out = "ok"
             THEN LET doc == json_loads(st.bucket[key])
                  IN  IF doc.ok THEN Result(c, RDict(doc.val))
                      ELSE Result(LogError(Met(c, "error")), RNone)
             ELSE IF out = "notfound" THEN Result(Met(c, "notfound"), RNone)
             ELSE Result(LogError(Met(c, "error")), RNone)

s3_write_json(st, key, data, net) ==
    IF ~s3_enabled THEN Result(st, RBool(FALSE))
    ELSE IF ~Serializable(data)
    THEN Result(LogError(Met(st, "error")), RBool(FALSE))   \* json.dumps raised
    ELSE LET c == Call(st, "put_object")
         IN  IF net = "ok"
             THEN Result([c EXCEPT !.bucket = Put(@, key, json_dumps(data))], RBool(TRUE))
             ELSE Result(LogError(Met(c, "error")), RBool(FALSE))

\* what can happen to a download: the service conditions, or a local filesystem
\* that refuses to create the directory
Conds == Nets \cup {"fserr"}

\* os.makedirs(os.path.dirname(local_path), exist_ok=True): an empty dirname
\* raises FileNotFoundError, and a refusing filesystem raises OSError
MakedirsOk(path, cond) == dirname(path) # "" /\ cond # "fserr"

s3_download_file(st, key, local_path, cond) ==
    IF ~s3_enabled THEN Result(st, RBool(FALSE))
    ELSE IF ~MakedirsOk(local_path, cond)
    THEN Result(LogError(Met(st, "error")), RBool(FALSE))
    ELSE LET d == [st EXCEPT !.dirs = @ \cup {dirname(local_path)}]
             c == Call(d, "download_file")
             out == KeyOutcome(st, key, cond)
         IN  IF out = "ok"
             THEN Result([c EXCEPT !.files = Put(@, local_path, st.bucket[key])], RBool(TRUE))
             ELSE IF out = "notfound" THEN Result(Met(c, "notfound"), RBool(FALSE))
             ELSE Result(LogError(Met(c, "error")), RBool(FALSE))

s3_upload_file(st, local_path, key, net) ==
    IF ~s3_enabled THEN Result(st, RBool(FALSE))
    ELSE IF local_path \notin DOMAIN st.files THEN Result(st, RBool(FALSE))
    ELSE LET c == Call(st, "upload_file")
         IN  IF net = "ok"
             THEN Result([c EXCEPT !.bucket = Put(@, key, st.files[local_path])], RBool(TRUE))
             ELSE Result(LogError(Met(c, "error")), RBool(FALSE))

\* a variant that reports failure when the key was not stored
s3_delete_object_AbsentFails(st, key, net) ==
    IF ~s3_enabled THEN Result(st, RBool(FALSE))
    ELSE LET c == Call(st, "delete_object")
         IN  IF net = "ok" /\ key \in DOMAIN st.bucket
             THEN Result([c EXCEPT !.bucket = Remove(@, key)], RBool(TRUE))
             ELSE Result(LogError(Met(c, "error")), RBool(FALSE))

\* delete_object succeeds on a reachable service whether or not the key is stored
s3_delete_object(st, key, net) ==
    IF ~s3_enabled THEN Result(st, RBool(FALSE))
    ELSE LET c == Call(st, "delete_object")
         IN  IF net = "ok"
             THEN Result([c EXCEPT !.bucket = Remove(@, key)], RBool(TRUE))
             ELSE Result(LogError(Met(c, "error")), RBool(FALSE))

\* a variant that tests the configuration before the local path
ensure_local_file_EnabledFirst(st, local_path, key, net, cond) ==
    IF ~s3_enabled THEN Result(st, RBool(FALSE))
    ELSE IF local_path \in DOMAIN st.files THEN Result(st, RBool(TRUE))
    ELSE LET e == s3_object_exists(st, key, net)
         IN  IF e.ret = Raised THEN e
             ELSE IF ~e.ret.v THEN Result(e.st, RBool(FALSE))
             ELSE s3_download_file(e.st, key, local_path, cond)

\* a variant that downloads without the existence check
ensure_local_file_NoCheck(st, local_path, key, net, cond) ==
    IF local_path \in DOMAIN st.files THEN Result(st, RBool(TRUE))
    ELSE IF ~s3_enabled THEN Result(st, RBool(FALSE))
    ELSE s3_download_file(st, key, local_path, cond)

ensure_local_file(st, local_path, key, net, cond) ==
    IF local_path \in DOMAIN st.files THEN Result(st, RBool(TRUE))
    ELSE IF ~s3_enabled THEN Result(st, RBool(FALSE))
    ELSE LET e == s3_object_exists(st, key, net)
         IN  IF e.ret = Raised THEN e
             ELSE IF ~e.ret.v THEN Result(e.st, RBool(FALSE))
             ELSE s3_download_file(e.st, key, local_path, cond)

\* ---- listing
\* what list_objects_v2 reports for one stored object; a service may leave the
\* metadata out (meta false), and then the entry has only its Key
Entry(st, k, meta) ==
    [Key |-> k, meta |-> meta, LastModified |-> "t0", Size |-> Len(st.bucket[k])]

RECURSIVE Chunks(_, _)
Chunks(seq, n) ==
    IF Len(seq) <= n THEN <<seq>>
    ELSE <<SubSeq(seq, 1, n)>> \o Chunks(SubSeq(seq, n + 1, Len(seq)), n)

\* paginator.paginate(Bucket, Prefix): the stored keys under the prefix, in key
\* order, pageSize to a page; with no such key, one page that has no "Contents"
ServicePages(st, prefix, pageSize, meta) ==
    LET matching == SelectSeq(KeyOrder, LAMBDA k : k \in DOMAIN st.bucket /\ HasPrefix(k, prefix))
        entries == [i \in 1..Len(matching) |-> Entry(st, matching[i], meta)]
    IN  IF matching = <<>> THEN <<[has |-> FALSE, Contents |-> <<>>]>>
        ELSE LET ch == Chunks(entries, pageSize)
             IN  [i \in 1..Len(ch) |-> [has |-> TRUE, Contents |-> ch[i]]]

\* one appended item: entry["Key"], entry.get("LastModified"), entry.get("Size", 0)
ListItem(entry) ==
    [key |-> entry.Key,
     last_modified |-> IF entry.meta THEN entry.LastModified ELSE None,
     size |-> IF entry.meta THEN entry.Size ELSE 0]

\* page.get("Contents", [])
PageContents(page) == IF page.has THEN page.Contents ELSE <<>>

\* a variant that stops after the first page
CollectItems_FirstPage(pages, items) ==
    IF pages = <<>> THEN items
    ELSE LET contents == PageContents(Head(pages))
         IN  items \o [i \in 1..Len(contents) |-> ListItem(contents[i])]

\* the two nested loops of s3_list_objects
RECURSIVE CollectItems(_, _)
CollectItems(pages, items) ==
    IF pages = <<>> THEN items
    ELSE LET contents == PageContents(Head(pages))
         IN  CollectItems(Tail(pages),
                          items \o [i \in 1..Len(contents) |-> ListItem(contents[i])])

s3_list_objects(st, prefix, net, pageSize, meta) ==
    IF ~s3_enabled THEN Result(st, RList(<<>>))
    ELSE LET c == Call(st, "list_objects_v2")
         IN  IF net = "ok"
             THEN Result(c, RList(CollectItems(ServicePages(st, prefix, pageSize, meta), <<>>)))
             ELSE Result(Met(c, "error"), Raised)   \* nothing catches a failed page

\* ------------------------------------------------------------ operations
NoArg == <<>>

\* what is remembered of the operation before the last one: a write_json or a
\* delete issued while the service was reachable, with its key, document and result
NoPrev == [op |-> "none", key |-> "", arg |-> NoArg, ret |-> RNone]
Summary(rec) ==
    IF rec.op \in {"write_json", "delete"} /\ rec.reachable
    THEN [op |-> rec.op, key |-> rec.key, arg |-> rec.arg, ret |-> rec.ret]
    ELSE NoPrev

\* an operation returned r: the stores and the cache are as it left them, and the
\* record keeps its inputs (reachable: the service answered its first call, with
\* the object or with not-found), its result and what it did
Commit(op, key, path, arg, net, r) ==
    /\ bucket' = r.st.bucket
    /\ files' = r.st.files
    /\ dirs' = r.st.dirs
    /\ cache' = r.st.cache
    /\ constructed' = r.st.constructed
    /\ last' = [op |-> op, key |-> key, path |-> path, arg |-> arg,
                reachable |-> net = "ok",
                ret |-> r.ret,
                calls |-> r.st.calls, logged |-> r.st.logged, fail |-> r.st.fail,
                built |-> r.st.constructed # constructed,
                existed |-> path \in DOMAIN files,
                stored |-> key \in DOMAIN bucket]
    /\ prev' = Summary(last)
    /\ UNCHANGED <<cfgvars, thrvars>>

IsEnabled == Commit("is_enabled", "", "", NoArg, "", Result(Cur, RBool(s3_enabled)))

Exists(key, net) == Commit("exists", key, "", NoArg, net, s3_object_exists(Cur, key, net))

ReadJson(key, net) == Commit("read_json", key, "", NoArg, net, s3_read_json(Cur, key, net))

WriteJson(key, data, net) ==
    Commit("write_json", key, "", data, net, s3_write_json(Cur, key, data, net))

Download(key, path, cond) ==
    Commit("download_to_local", key, path, NoArg, cond,
           s3_download_file(Cur, key, path, cond))

Upload(path, key, net) ==
    Commit("upload_from_local", key, path, NoArg, net, s3_upload_file(Cur, path, key, net))

Delete(key, net) == Commit("delete", key, "", NoArg, net, s3_delete_object(Cur, key, net))

EnsureLocal(path, key, net, cond) ==
    Commit("ensure_local", key, path, NoArg, net,
           ensure_local_file(Cur, path, key, net, cond))

List(prefix, net, pageSize, meta) ==
    Commit("list_by_prefix", prefix, "", <<pageSize, meta>>, net,
           s3_list_objects(Cur, prefix, net, pageSize, meta))

BuildKey(parts) ==
    /\ last' = [last EXCEPT !.op = "build_key", !.arg = parts,
                            !.ret = [t |-> "str", v |-> build_s3_key(parts, S3_PREFIX, os_sep)]]
    /\ UNCHANGED <<cfgvars, storevars, cache, constructed, prev, thrvars>>

\* ------------------------------------------------------- concurrent use
Threads == 1..NumThreads

\* a thread enters an operation of an enabled store and reaches _s3_client():
\* lru_cache looks the (empty) key up; a hit returns the cached handle
CacheHit(t) ==
    /\ pc[t] = "idle" /\ s3_enabled /\ cache # <<>>
    /\ handle' = [handle EXCEPT ![t] = cache[1]]
    /\ pc' = [pc EXCEPT ![t] = "call"]
    /\ UNCHANGED <<cfgvars, storevars, cache, constructed, last, prev, used>>

\* a miss: the wrapper goes on to call the wrapped function, holding no lock
CacheMiss(t) ==
    /\ pc[t] = "idle" /\ s3_enabled /\ cache = <<>>
    /\ pc' = [pc EXCEPT ![t] = "construct"]
    /\ UNCHANGED <<cfgvars, storevars, cache, constructed, last, prev, handle, used>>

\* boto3.client("s3", ...) returns a new handle
Construct(t) ==
    /\ pc[t] = "construct"
    /\ constructed' = constructed + 1
    /\ handle' = [handle EXCEPT ![t] = constructed + 1]
    /\ pc' = [pc EXCEPT ![t] = "store"]
    /\ UNCHANGED <<cfgvars, storevars, cache, last, prev, used>>

\* back in the wrapper: the result is cached unless the key was cached meanwhile,
\* and the caller gets the handle its own call built either way
StoreResult(t) ==
    /\ pc[t] = "store"
    /\ cache' = IF cache = <<>> THEN <<handle[t]>> ELSE cache
    /\ pc' = [pc EXCEPT ![t] = "call"]
    /\ UNCHANGED <<cfgvars, storevars, constructed, last, prev, handle, used>>

\* the remote call is issued on the handle the thread holds
RemoteCall(t) ==
    /\ pc[t] = "call"
    /\ used' = used \cup {handle[t]}
    /\ pc' = [pc EXCEPT ![t] = "idle"]
    /\ UNCHANGED <<cfgvars, storevars, cache, constructed, last, prev, handle>>

\* ------------------------------------------------------- specifications
Deepwiki == <<"d", "e", "e", "p", "w", "i", "k", "i">>

NoOp == [op |-> "none", key |-> "", path |-> "", arg |-> NoArg, reachable |-> FALSE,
         ret |-> RNone,
         calls |-> <<>>, logged |-> 0, fail |-> "none", built |-> FALSE,
         existed |-> FALSE, stored |-> FALSE]

InitConfig ==
    /\ STORAGE_BACKEND \in {"local", "s3"}
    /\ S3_ENABLED_ENV \in BOOLEAN
    /\ S3_BUCKET \in {None, "", "bkt"}

InitRest ==
    /\ dirs = {}
    /\ cache = <<>>
    /\ constructed = 0
    /\ last = NoOp
    /\ prev = NoPrev
    /\ pc = [t \in Threads |-> "idle"]
    /\ handle = [t \in Threads |-> 0]
    /\ used = {}

Init ==
    /\ InitConfig
    /\ S3_PREFIX = Deepwiki
    /\ os_sep = "/"
    /\ bucket = EmptyFn
    /\ files \in {EmptyFn, [p \in {"f.json"} |-> RawContent]}
    /\ InitRest

Next ==
    \/ IsEnabled
    \/ \E k \in Keys, net \in Nets : Exists(k, net)
    \/ \E k \in Keys, net \in Nets : ReadJson(k, net)
    \/ \E k \in Keys, net \in Nets : WriteJson(k, DocX1, net)
    \/ \E k \in Keys, p \in Paths, cond \in Conds : Download(k, p, cond)
    \/ \E p \in Paths, k \in Keys, net \in Nets : Upload(p, k, net)
    \/ \E k \in Keys, net \in Nets : Delete(k, net)
    \/ \E p \in Paths, k \in Keys, net \in Nets, cond \in Conds :
           EnsureLocal(p, k, net, cond)
    \/ \E pre \in Prefixes, net \in Nets : List(pre, net, MaxPageSize, TRUE)

Spec == Init /\ [][Next]_vars

\* the JSON operations, on every document
NextJson ==
    \/ \E k \in Keys, net \in Nets : Exists(k, net)
    \/ \E k \in Keys, net \in Nets : ReadJson(k, net)
    \/ \E k \in Keys, d \in Docs, net \in Nets : WriteJson(k, d, net)
    \/ \E p \in Paths, k \in Keys, net \in Nets : Upload(p, k, net)
    \/ \E k \in Keys, net \in Nets : Delete(k, net)

SpecJson == Init /\ [][NextJson]_vars

\* build_s3_key on every short list of short segments, under every short prefix
Example4 == << <<"a">>, <<>>, <<"b", "/">>, <<"/", "c">> >>
ExampleInner == << <<"a", "/", "/", "b">> >>
PartLists == ListsUpTo(StringsUpTo(MaxPartLen), MaxParts) \cup {Example4, ExampleInner}
PrefixChoices == StringsUpTo(MaxPartLen) \cup {Deepwiki}

InitKey ==
    /\ STORAGE_BACKEND = "local" /\ S3_ENABLED_ENV = FALSE /\ S3_BUCKET = None
    /\ S3_PREFIX \in PrefixChoices
    /\ os_sep \in {"/", "\\"}
    /\ bucket = EmptyFn /\ files = EmptyFn
    /\ InitRest

NextKey == \E parts \in PartLists : BuildKey(parts)

SpecKey == InitKey /\ [][NextKey]_vars

\* list_by_prefix over every bucket content
InitList ==
    /\ InitConfig
    /\ S3_PREFIX = Deepwiki
    /\ os_sep = "/"
    /\ \E S \in SUBSET {KeyOrder[i] : i \in 1..Len(KeyOrder)} :
           bucket \in [S -> {json_dumps(DocX1), RawContent}]
    /\ files = EmptyFn
    /\ InitRest

NextList ==
    \E pre \in Prefixes, net \in Nets, n \in 1..MaxPageSize, meta \in BOOLEAN :
        List(pre, net, n, meta)

SpecList == InitList /\ [][NextList]_vars

\* several threads touching the module at the same time
NextConc ==
    \E t \in Threads :
        \/ CacheHit(t)
        \/ CacheMiss(t)
        \/ Construct(t)
        \/ StoreResult(t)
        \/ RemoteCall(t)

SpecConc == Init /\ [][NextConc]_vars

\* ---------------------------------------------------------------- claims
\* "enabled" as the specification words it, straight from the configuration
StoreEnabled ==
    /\ S3_BUCKET # None /\ S3_BUCKET # ""
    /\ (STORAGE_BACKEND = "s3" \/ S3_ENABLED_ENV = TRUE)

RemoteOps == {"exists", "read_json", "write_json", "download_to_local",
              "upload_from_local", "delete", "list_by_prefix", "ensure_local"}

\* the typed empty result of an operation
EmptyResult(op) ==
    IF op = "read_json" THEN RNone
    ELSE IF op = "list_by_prefix" THEN RList(<<>>)
    ELSE RBool(FALSE)

\* C1: while the store is not enabled, every remote operation (ensure_local with
\* the local path absent) returns its empty result, issues no remote call and
\* builds no client handle, and is_enabled answers false.
C1_DisabledIsNoOp ==
    ~StoreEnabled =>
        /\ (last.op \in RemoteOps /\ ~(last.op = "ensure_local" /\ last.existed))
               => /\ last.ret = EmptyResult(last.op)
                  /\ last.calls = <<>>
                  /\ ~last.built
        /\ last.op = "is_enabled" => last.ret = RBool(FALSE)
        /\ cache = <<>> /\ constructed = 0

C1_Witness ==
    /\ S3_BUCKET = None /\ STORAGE_BACKEND = "s3"
    /\ last.op = "ensure_local" /\ ~last.existed /\ last.ret = RBool(FALSE)

\* C2: with the store enabled, no operation lets an exception out, whatever the
\* underlying call did.
C2_NeverRaises == StoreEnabled => last.ret # Raised

\* C3: with the store enabled an operation writes an error-log entry exactly when
\* its underlying call failed with something other than not-found; a disabled
\* store never logs.
C3_LogIffError ==
    /\ StoreEnabled => (last.logged > 0 <=> last.fail = "error")
    /\ ~StoreEnabled => last.logged = 0

\* C4: ensure_local on a local path that exists returns true, issues no remote
\* call, builds no client handle and changes neither the local filesystem nor
\* the bucket, whatever the configuration and whether or not the key is stored.
C4_EnsureExistingIsLocal ==
    [][(last'.op = "ensure_local" /\ last'.existed)
          => /\ last'.ret = RBool(TRUE)
             /\ last'.calls = <<>>
             /\ ~last'.built
             /\ UNCHANGED <<bucket, files, dirs, cache, constructed>>]_vars

C4_Witness ==
    /\ StoreEnabled /\ last.op = "ensure_local" /\ last.existed
    /\ last.stored /\ last.ret = RBool(TRUE)

C6_RoundTrip ==
    StoreEnabled =>
        /\ (last.op = "write_json" /\ last.reachable /\ IsJSONDoc(last.arg))
               => last.ret = RBool(TRUE)
        /\ (prev.op = "write_json" /\ IsJSONDoc(prev.arg)
            /\ last.op = "read_json" /\ last.key = prev.key /\ last.reachable)
               => /\ prev.ret = RBool(TRUE)
                  /\ last.ret.t = "dict"
                  /\ DictEq(last.ret.v, prev.arg)

C6_Witness ==
    /\ StoreEnabled /\ prev.op = "write_json" /\ prev.arg = DocList
    /\ last.op = "read_json" /\ last.key = prev.key /\ last.reachable
    /\ last.ret.t = "dict"

\* what the key format asks of a key, read off its characters
HasEmptySegment(k) == \E i \in 1..Len(k) - 1 : k[i] = "/" /\ k[i + 1] = "/"
EdgeSlash(k) == k # <<>> /\ (k[1] = "/" \/ k[Len(k)] = "/")
NormalizedSegments(parts, sep) ==
    SelectSeq([i \in 1..Len(parts) |-> Strip(Replace(parts[i], sep))], LAMBDA x : x # <<>>)
JoinedKey(parts, prefix, sep) ==
    Join(SelectSeq(<<Strip(prefix)>>, LAMBDA x : x # <<>>) \o NormalizedSegments(parts, sep))

\* C7: the key build_key returns has no empty segment, no leading or trailing
\* slash, and is the stripped prefix joined by "/" with the non-empty normalized
\* segments in order.
C7_KeyNormalized ==
    last.op = "build_key" =>
        /\ ~HasEmptySegment(last.ret.v)
        /\ ~EdgeSlash(last.ret.v)
        /\ last.ret.v = JoinedKey(last.arg, S3_PREFIX, os_sep)

\* the entries of a sequence of pages, one page after the other
RECURSIVE AllEntries(_)
AllEntries(pages) ==
    IF pages = <<>> THEN <<>>
    ELSE (IF Head(pages).has THEN Head(pages).Contents ELSE <<>>) \o AllEntries(Tail(pages))

\* C8: with the store enabled, list_by_prefix returns one sequence: the entries of
\* every page the listing yields, in page order, each as key / last_modified /
\* size; a page without contents adds nothing.
C8_ListAllPages ==
    (StoreEnabled /\ last.op = "list_by_prefix" /\ last.reachable) =>
        LET pages == ServicePages(Cur, last.key, last.arg[1], last.arg[2])
            all == AllEntries(pages)
        IN  /\ last.ret.t = "list"
            /\ Len(last.ret.v) = Len(all)
            /\ \A i \in 1..Len(all) :
                   /\ last.ret.v[i].key = all[i].Key
                   /\ last.ret.v[i].last_modified =
                          (IF all[i].meta THEN all[i].LastModified ELSE None)
                   /\ last.ret.v[i].size = (IF all[i].meta THEN all[i].Size ELSE 0)

C8_Witness ==
    /\ StoreEnabled /\ last.op = "list_by_prefix" /\ last.reachable
    /\ Len(ServicePages(Cur, last.key, last.arg[1], last.arg[2])) >= 2
    /\ Len(last.ret.v) >= 3

\* C9: with the store enabled and the service reachable, two deletes of a key in
\* a row both return true, and right after a successful delete exists reports
\* false and read_json reports nothing for that key.
C9_DeleteIdempotent ==
    (StoreEnabled /\ prev.op = "delete" /\ last.key = prev.key /\ last.reachable) =>
        /\ prev.ret = RBool(TRUE)
        /\ last.op = "delete" => last.ret = prev.ret
        /\ last.op = "exists" => last.ret = RBool(FALSE)
        /\ last.op = "read_json" => last.ret = RNone
        /\ last.key \notin DOMAIN bucket \/ last.op \in {"write_json", "upload_from_local"}

C9_Witness ==
    /\ StoreEnabled /\ prev.op = "delete" /\ last.op = "delete"
    /\ last.key = prev.key /\ last.reachable /\ last.ret = RBool(TRUE)

\* C10: the client constructor runs at most once in the process and every remote
\* call goes through the same handle, also when several threads touch the module
\* for the first time together.
C10_OneHandle == constructed <= 1 /\ Cardinality(used) <= 1

====
